---- MODULE Spec2Model ----
(***************************************************************************)
(* The contended-counter examples of the repository:                       *)
(*   atomic/main.cpp      - plain int counter, one std::mutex held by a    *)
(*                          worker for its whole loop ("Locking")          *)
(*   src/atomic/main.cpp  - std::atomic<int> counter, no lock ("Atomic")   *)
(* Both programs share the same orchestrator (spawn, join, print, return). *)
(* One run of one program is one behaviour; the discipline and the two     *)
(* configuration globals are fixed by Init.                                *)
(*   src/atomic/test_features.cpp - the feature probe (FeatureTest), a     *)
(*                          program of its own, run by ProbeSpec           *)
(***************************************************************************)
EXTENDS Integers, Sequences, FiniteSets

(* ---- bounds of the model ---------------------------------------------- *)
\* largest threadCount explored
MaxThreads == 2
\* largest iterations explored
MaxIterations == 4
\* width of int in the model; the build has 32.  Scaled down so that a run
\* whose threadCount * iterations leaves the range of int is explored.
CounterBits == 4
\* calls of increment() by each thread of the feature probe; the build has
\* 1000.  Scaled down with the width of int, so that the total still fits.
ProbeIterations == 1

\* threads of the feature probe: for(int i = 0; i < 5; ++i)
ProbeThreads == 5

(* ---- the int type ------------------------------------------------------ *)
RECURSIVE Pow2(_)
Pow2(n) == IF n = 0 THEN 1 ELSE 2 * Pow2(n - 1)

INT_MAX == Pow2(CounterBits - 1) - 1
INT_MIN == 0 - Pow2(CounterBits - 1)

\* two's complement wrap-around of a mathematical integer into int
WrapInt(n) == ((n - INT_MIN) % Pow2(CounterBits)) + INT_MIN

Disciplines == {"Locking", "Atomic"}

\* a fetch-and-add on a counter wider than int
AtomicFetchAddWide(c) == c + 1

\* a decrement written where the increment was meant
AtomicFetchSub(c) == WrapInt(c - 1)

\* std::atomic<int>::operator++ : one indivisible fetch-and-add, wraps
AtomicFetchAdd(c) == WrapInt(c + 1)

\* counter++ on a plain int whose result is representable
PlainIncrement(c) == c + 1

(* ---- std::to_string(int) ---------------------------------------------- *)
Digit(d) ==
    CASE d = 0 -> "0" [] d = 1 -> "1" [] d = 2 -> "2" [] d = 3 -> "3"
      [] d = 4 -> "4" [] d = 5 -> "5" [] d = 6 -> "6" [] d = 7 -> "7"
      [] d = 8 -> "8" [] d = 9 -> "9"

RECURSIVE ToStringNat(_)
ToStringNat(n) == IF n < 10 THEN Digit(n) ELSE ToStringNat(n \div 10) \o Digit(n % 10)

ToString(n) == IF n < 0 THEN "-" \o ToStringNat(0 - n) ELSE ToStringNat(n)

(* ---- state -------------------------------------------------------------- *)
VARIABLES
    discipline,   \* which of the two programs runs
    threadCount,  \* global int threadCount
    iterations,   \* global int iterations
    counter,      \* global counter (int / std::atomic<int>)
    m,            \* std::mutex m: 0 when free, else the worker holding it
    threads,      \* size of the vector of std::thread
    joined,       \* number of threads the join loop has joined
    mainPc,       \* position of main: "spawn", "join", "print", "return", "exited"
    wpc,          \* position of each worker's lambda
    wi,           \* each worker's loop variable i
    loaded,       \* value of counter a worker's plain counter++ has loaded
    memeSmth,     \* each worker's last std::to_string(counter)
    output,       \* lines written to std::cout
    mainReads,    \* how many times main has read counter
    exit,         \* "running", "returned" (return from main) or "trapped"
    exitCode,     \* <<>> until main returns, then <<code>>
    pStandard,    \* feature probe: the build's __cplusplus
    pPc,          \* feature probe: position of main / test_features
    pCounter,     \* FeatureTest::counter
    pThreads,     \* size of the vector of std::thread in test_features
    pJoined,      \* number of threads test_features has joined
    pWpc,         \* position of each probe thread's lambda
    pJ,           \* each probe thread's loop variable j
    pOutput,      \* lines the probe has written to std::cout
    pExitCode     \* <<>> until the probe's main returns, then <<code>>

\* the state of the feature probe
probeVars == <<pStandard, pPc, pCounter, pThreads, pJoined, pWpc, pJ, pOutput,
               pExitCode>>

\* the state of the two counter examples
counterVars == <<discipline, threadCount, iterations, counter, m, threads, joined,
                 mainPc, wpc, wi, loaded, memeSmth, output, mainReads, exit,
                 exitCode>>

vars == <<counterVars, probeVars>>

config == <<discipline, threadCount, iterations>>

Workers == 1..MaxThreads

ProbeWorkers == 1..ProbeThreads

\* values of __cplusplus explored: a C++17 and a C++20 build
CppStandards == {201703, 202002}

\* a run of a counter example has no feature probe in it
ProbeAbsent ==
    /\ pStandard = 0
    /\ pPc = "absent"
    /\ pCounter = 0
    /\ pThreads = 0
    /\ pJoined = 0
    /\ pWpc = [t \in ProbeWorkers |-> "unspawned"]
    /\ pJ = [t \in ProbeWorkers |-> 0]
    /\ pOutput = <<>>
    /\ pExitCode = <<>>

\* values an int global can take among those explored
ConfigThreadCounts == {n \in 1..MaxThreads : n <= INT_MAX}
ConfigIterations == {n \in 0..MaxIterations : n <= INT_MAX}

Init ==
    /\ discipline \in Disciplines
    /\ threadCount \in ConfigThreadCounts
    /\ iterations \in ConfigIterations
    /\ counter = 0
    /\ m = 0
    /\ threads = 0
    /\ joined = 0
    /\ mainPc = "spawn"
    /\ wpc = [w \in Workers |-> "unspawned"]
    /\ wi = [w \in Workers |-> 0]
    /\ loaded = [w \in Workers |-> 0]
    /\ memeSmth = [w \in Workers |-> ""]
    /\ output = <<>>
    /\ mainReads = 0
    /\ exit = "running"
    /\ exitCode = <<>>
    /\ ProbeAbsent

(* ---- orchestrator (main) ------------------------------------------------ *)
\* a lambda that takes the lock_guard in both programs
WorkerEntryAlwaysLocks == "lock"

\* a lambda that never takes the lock_guard
WorkerEntryNeverLocks == "loop"

\* first position of a freshly started worker
WorkerEntry == IF discipline = "Locking" THEN "lock" ELSE "loop"

\* threads.emplace_back(increment); ++i; loop test
Spawn ==
    /\ exit = "running"
    /\ mainPc = "spawn"
    /\ threads < threadCount
    /\ threads' = threads + 1
    /\ wpc' = [wpc EXCEPT ![threads + 1] = WorkerEntry]
    /\ mainPc' = IF threads + 1 < threadCount THEN "spawn" ELSE "join"
    /\ UNCHANGED <<probeVars, discipline, threadCount, iterations, counter, m, joined, wi,
                   loaded, memeSmth, output, mainReads, exit, exitCode>>

\* a join that returns as soon as the thread exists
JoinReturnsWithoutWaiting(w) == wpc[w] # "unspawned"

\* thread.join() returns only once that thread's function has returned
JoinReturns(w) == wpc[w] = "done"

Join ==
    /\ exit = "running"
    /\ mainPc = "join"
    /\ joined < threads
    /\ JoinReturns(joined + 1)
    /\ joined' = joined + 1
    /\ mainPc' = IF joined + 1 < threads THEN "join" ELSE "print"
    /\ UNCHANGED <<probeVars, discipline, threadCount, iterations, counter, m, threads, wpc,
                   wi, loaded, memeSmth, output, mainReads, exit, exitCode>>

\* the line std::cout << "Counter: " << counter << std::endl writes
SummaryLine(v) == "Counter: " \o ToString(v)

\* an output statement that reads the counter with exchange(0)
PrintCounterAndReset ==
    /\ exit = "running"
    /\ mainPc = "print"
    /\ output' = Append(output, SummaryLine(counter))
    /\ mainReads' = mainReads + 1
    /\ mainPc' = "return"
    /\ counter' = 0
    /\ UNCHANGED <<probeVars, discipline, threadCount, iterations, m, threads,
                   joined, wpc, wi, loaded, memeSmth, exit, exitCode>>

\* std::cout << "Counter: " << counter << std::endl;
PrintCounter ==
    /\ exit = "running"
    /\ mainPc = "print"
    /\ output' = Append(output, SummaryLine(counter))
    /\ mainReads' = mainReads + 1
    /\ mainPc' = "return"
    /\ UNCHANGED <<probeVars, discipline, threadCount, iterations, counter, m, threads,
                   joined, wpc, wi, loaded, memeSmth, exit, exitCode>>

\* return 0;
Return ==
    /\ exit = "running"
    /\ mainPc = "return"
    /\ mainPc' = "exited"
    /\ exit' = "returned"
    /\ exitCode' = <<0>>
    /\ UNCHANGED <<probeVars, discipline, threadCount, iterations, counter, m, threads,
                   joined, wpc, wi, loaded, memeSmth, output, mainReads>>

(* ---- worker (the increment lambda) -------------------------------------- *)
\* a lock that never blocks
MutexNeverBlocks == TRUE

\* std::lock_guard<std::mutex> g(m): blocks until m is free
MutexFree == m = 0

WorkerLock(w) ==
    /\ exit = "running"
    /\ wpc[w] = "lock"
    /\ MutexFree
    /\ m' = w
    /\ wpc' = [wpc EXCEPT ![w] = "loop"]
    /\ UNCHANGED <<probeVars, discipline, threadCount, iterations, counter, threads, joined,
                   mainPc, wi, loaded, memeSmth, output, mainReads, exit, exitCode>>

\* a loop that runs once too often
LoopConditionInclusive(w) == wi[w] <= iterations

\* for (int i = 0; i < iterations; ++i)
LoopCondition(w) == wi[w] < iterations

\* counter++ on a counter that is not atomic: only the load, the store follows
WorkerFetchAddTorn(w) ==
    /\ exit = "running"
    /\ discipline = "Atomic"
    /\ wpc[w] = "loop"
    /\ LoopCondition(w)
    /\ loaded' = [loaded EXCEPT ![w] = counter]
    /\ wpc' = [wpc EXCEPT ![w] = "store"]
    /\ UNCHANGED <<probeVars, discipline, threadCount, iterations, counter, m, threads, joined,
                   mainPc, wi, memeSmth, output, mainReads, exit, exitCode>>

\* Atomic: counter++ is one fetch-and-add on std::atomic<int>
WorkerFetchAdd(w) ==
    /\ exit = "running"
    /\ discipline = "Atomic"
    /\ wpc[w] = "loop"
    /\ LoopCondition(w)
    /\ counter' = AtomicFetchAdd(counter)
    /\ wpc' = [wpc EXCEPT ![w] = "tostring"]
    /\ UNCHANGED <<probeVars, discipline, threadCount, iterations, m, threads, joined,
                   mainPc, wi, loaded, memeSmth, output, mainReads, exit, exitCode>>

\* Locking: counter++ on the plain int is a load, an add and a store;
\* this is the load
WorkerLoad(w) ==
    /\ exit = "running"
    /\ discipline = "Locking"
    /\ wpc[w] = "loop"
    /\ LoopCondition(w)
    /\ loaded' = [loaded EXCEPT ![w] = counter]
    /\ wpc' = [wpc EXCEPT ![w] = "store"]
    /\ UNCHANGED <<probeVars, discipline, threadCount, iterations, counter, m, threads, joined,
                   mainPc, wi, memeSmth, output, mainReads, exit, exitCode>>

\* the add and the store of counter++, result representable
WorkerStore(w) ==
    /\ exit = "running"
    /\ wpc[w] = "store"
    /\ loaded[w] < INT_MAX
    /\ counter' = PlainIncrement(loaded[w])
    /\ loaded' = [loaded EXCEPT ![w] = 0]
    /\ wpc' = [wpc EXCEPT ![w] = "tostring"]
    /\ UNCHANGED <<probeVars, discipline, threadCount, iterations, m, threads, joined,
                   mainPc, wi, memeSmth, output, mainReads, exit, exitCode>>

\* the add of counter++ at INT_MAX: signed overflow, undefined behaviour.
\* The outcomes modelled: the value wraps to INT_MIN, or the build traps
\* and the process is killed.
WorkerStoreOverflow(w) ==
    /\ exit = "running"
    /\ wpc[w] = "store"
    /\ loaded[w] = INT_MAX
    /\ \/ /\ counter' = INT_MIN
          /\ loaded' = [loaded EXCEPT ![w] = 0]
          /\ wpc' = [wpc EXCEPT ![w] = "tostring"]
          /\ exit' = exit
       \/ /\ exit' = "trapped"
          /\ UNCHANGED <<counter, loaded, wpc>>
    /\ UNCHANGED <<probeVars, discipline, threadCount, iterations, m, threads, joined,
                   mainPc, wi, memeSmth, output, mainReads, exitCode>>

\* auto memeSmth = std::to_string(counter); ++i
WorkerToString(w) ==
    /\ exit = "running"
    /\ wpc[w] = "tostring"
    /\ memeSmth' = [memeSmth EXCEPT ![w] = ToString(counter)]
    /\ wi' = [wi EXCEPT ![w] = wi[w] + 1]
    /\ wpc' = [wpc EXCEPT ![w] = "loop"]
    /\ UNCHANGED <<probeVars, discipline, threadCount, iterations, counter, m, threads,
                   joined, mainPc, loaded, output, mainReads, exit, exitCode>>

\* a lambda that locks m by hand and returns without unlocking it
WorkerReturnKeepsLock(w) ==
    /\ exit = "running"
    /\ wpc[w] = "loop"
    /\ ~LoopCondition(w)
    /\ wpc' = [wpc EXCEPT ![w] = "done"]
    /\ UNCHANGED <<probeVars, discipline, threadCount, iterations, counter, m, threads, joined,
                   mainPc, wi, loaded, memeSmth, output, mainReads, exit, exitCode>>

\* i < iterations fails: the lambda returns; under Locking the lock_guard's
\* destructor unlocks m
WorkerReturn(w) ==
    /\ exit = "running"
    /\ wpc[w] = "loop"
    /\ ~LoopCondition(w)
    /\ wpc' = [wpc EXCEPT ![w] = "done"]
    /\ m' = IF discipline = "Locking" THEN 0 ELSE m
    /\ UNCHANGED <<probeVars, discipline, threadCount, iterations, counter, threads, joined,
                   mainPc, wi, loaded, memeSmth, output, mainReads, exit, exitCode>>

WorkerStep(w) ==
    \/ WorkerLock(w)
    \/ WorkerFetchAdd(w)
    \/ WorkerLoad(w)
    \/ WorkerStore(w)
    \/ WorkerStoreOverflow(w)
    \/ WorkerToString(w)
    \/ WorkerReturn(w)

Next ==
    \/ Spawn
    \/ Join
    \/ PrintCounter
    \/ Return
    \/ \E w \in Workers : WorkerStep(w)

Spec == Init /\ [][Next]_vars

\* the scheduler runs every thread that can take a step
FairSpec == Spec /\ WF_vars(Spawn \/ Join \/ PrintCounter \/ Return)
                 /\ \A w \in Workers : WF_vars(WorkerStep(w))

(* ---- derived notions ---------------------------------------------------- *)
TypeOK ==
    /\ discipline \in Disciplines
    /\ threadCount \in 1..MaxThreads
    /\ iterations \in 0..MaxIterations
    /\ counter \in INT_MIN..INT_MAX
    /\ m \in 0..MaxThreads
    /\ threads \in 0..threadCount
    /\ joined \in 0..threads
    /\ mainPc \in {"spawn", "join", "print", "return", "exited"}
    /\ wpc \in [Workers -> {"unspawned", "lock", "loop", "store", "tostring", "done"}]
    /\ wi \in [Workers -> 0..MaxIterations]
    /\ loaded \in [Workers -> INT_MIN..INT_MAX]
    /\ exit \in {"running", "returned", "trapped"}

\* the run phases of the specification
Phase ==
    IF mainPc = "spawn" /\ threads = 0 THEN "NotStarted"
    ELSE IF mainPc \in {"return", "exited"} THEN "Completed"
    ELSE "Running"

\* the mathematical product the spec calls threadCount x iterations
Product == threadCount * iterations

\* the run stays inside the range of int
InRange == Product <= INT_MAX

\* main has read the counter and written the summary line
Reported == mainReads > 0

\* positions between a worker's loop entry and its loop exit
InLoop == {"loop", "store", "tostring"}

\* the workers main has spawned
Spawned == 1..threads

C3_HolderInv ==
    discipline = "Locking" =>
        /\ Cardinality({w \in Workers : wpc[w] \in InLoop}) <= 1
        /\ \A w \in Workers : (wpc[w] \in InLoop) <=> (m = w)

C3_HolderStep ==
    discipline = "Locking" =>
        /\ \A w \in Workers :
              (m = w /\ counter' # counter) =>
                  (wpc[w] = "store" /\ wpc'[w] = "tostring" /\ m' = w)
        /\ \A w \in Workers :
              (wpc[w] \in InLoop /\ wi[w] < iterations) => m' = w
        /\ (counter' # counter) => m # 0

C3_ExclusiveLoop == [](C3_HolderInv) /\ [][C3_HolderStep]_vars

\* two workers contend: one is in the middle of its loop, the other waits
C3_Witness ==
    /\ discipline = "Locking"
    /\ \E w, v \in Workers :
          /\ w # v
          /\ wpc[w] = "tostring" /\ wi[w] >= 1
          /\ wpc[v] = "lock"

(* ---- C4 ------------------------------------------------------------------ *)
\* C4: main reads the counter and writes the summary line only after every
\* worker has been spawned, has finished and has been joined; it reads the
\* counter once; no step changes the counter after that read.
C4_ReportInv ==
    /\ mainReads <= 1
    /\ Len(output) = mainReads
    /\ Reported =>
          /\ threads = threadCount
          /\ joined = threads
          /\ \A w \in 1..threadCount : wpc[w] = "done"
    /\ ~Reported => output = <<>>
    /\ exit = "returned" => mainReads = 1

C4_ReportThenFrozen == Reported => counter' = counter

C4_ReportAfterJoin == [](C4_ReportInv) /\ [][C4_ReportThenFrozen]_vars

C4_Witness ==
    /\ Reported
    /\ threadCount = 2
    /\ iterations >= 1
    /\ exit = "returned"

(* ---- C5 ------------------------------------------------------------------ *)
PhaseRank ==
    CASE Phase = "NotStarted" -> 0
      [] Phase = "Running" -> 1
      [] Phase = "Completed" -> 2

\* the phase stays or moves one step forward
C5_PhaseForward == PhaseRank' = PhaseRank \/ PhaseRank' = PhaseRank + 1

\* a process that is still running can take a step: no deadlock
C5_NoDeadlock == exit = "running" => ENABLED Next

\* the configurations in which no increment overflows a plain int (the
\* configuration never changes, so this holds of a whole run or of none)
C5_NoOverflowTrap == discipline = "Atomic" \/ InRange

SequentialStep(c) ==
    IF discipline = "Atomic" THEN AtomicFetchAdd(c)
    ELSE IF c < INT_MAX THEN PlainIncrement(c) ELSE INT_MIN

RECURSIVE SequentialRun(_, _)
SequentialRun(c, n) == IF n = 0 THEN c ELSE SequentialRun(SequentialStep(c), n - 1)

\* the final counter of the run that executes worker 1, then worker 2, ...
SequentialResult == SequentialRun(0, Product)

AllWorkersDone ==
    /\ threads = threadCount
    /\ \A w \in 1..threadCount : wpc[w] = "done"

C9_Inv ==
    iterations = 0 =>
        /\ counter = 0
        /\ \A w \in Workers : wpc[w] \notin {"store", "tostring"}
        /\ Reported => output = <<"Counter: 0">>

\* under Locking a worker passes the lock only by taking the free mutex and
\* finishes only by releasing the mutex it holds
C9_Step ==
    (iterations = 0 /\ discipline = "Locking") =>
        \A w \in Workers :
            /\ (wpc[w] = "lock" /\ wpc'[w] # "lock") => (m = 0 /\ m' = w)
            /\ (wpc[w] # "done" /\ wpc'[w] = "done") => (m = w /\ m' = 0)
            /\ (wpc[w] = "unspawned" /\ wpc'[w] # "unspawned") => wpc'[w] = "lock"

\* C9: with iterations = 0 no step changes the counter, the reported count
\* is 0, under Locking every worker still takes and releases the mutex, and
\* under fair scheduling the run completes.
C9_ZeroIterations ==
    /\ [](C9_Inv)
    /\ [][C9_Step /\ (iterations = 0 => counter' = counter)]_vars
    /\ (iterations = 0) => <>(exit = "returned" /\ Reported)

C9_Witness ==
    /\ iterations = 0
    /\ discipline = "Locking"
    /\ threadCount = 2
    /\ exit = "returned"
    /\ output = <<"Counter: 0">>

(* ---- C10 ----------------------------------------------------------------- *)
\* C10: with threadCount = 1 the reported count is iterations, and the one
\* worker can always take its next step; under Locking the mutex is free
\* whenever the worker is at the lock.
C10_SingleWorker ==
    threadCount = 1 =>
        /\ Reported => (counter = iterations /\ output = <<SummaryLine(iterations)>>)
        /\ \A w \in Workers : wpc[w] = "lock" => MutexFree
        /\ \A w \in Workers :
              wpc[w] \in {"lock", "loop", "store", "tostring"} => ENABLED WorkerStep(w)
        /\ exit # "trapped"

C10_Witness ==
    /\ threadCount = 1
    /\ discipline = "Locking"
    /\ iterations >= 2
    /\ exit = "returned"
    /\ output = <<SummaryLine(iterations)>>

(* ---- C11 ----------------------------------------------------------------- *)
\* main is at a statement other than a join
MainNotAtJoin == mainPc \in {"spawn", "print", "return"}

\* C11: under Atomic no worker ever blocks: a worker that has started and
\* not finished can always take its next step (its increment, its read or
\* its return) whatever the other workers do, no worker is ever at a lock,
\* and main can always take its next step unless it is at a join.
C11_AtomicNeverBlocks ==
    discipline = "Atomic" =>
        /\ \A w \in Workers : wpc[w] \in {"unspawned", "loop", "tostring", "done"}
        /\ \A w \in Workers :
              wpc[w] \in {"loop", "tostring"} => ENABLED WorkerStep(w)
        /\ \A w \in Workers :
              (wpc[w] = "loop" /\ LoopCondition(w)) => ENABLED WorkerFetchAdd(w)
        /\ \A w \in Workers : wpc[w] = "tostring" => ENABLED WorkerToString(w)
        /\ MutexFree
        /\ MainNotAtJoin => ENABLED (Spawn \/ PrintCounter \/ Return)

\* both workers are in the middle of their loops while main is blocked in
\* the join of the first
C11_Witness ==
    /\ discipline = "Atomic"
    /\ threadCount = 2
    /\ wpc[1] = "tostring" /\ wi[1] >= 1
    /\ wpc[2] = "loop" /\ wi[2] >= 1 /\ LoopCondition(2)
    /\ mainPc = "join"
    /\ ~ENABLED Join

(* ---- C12 ----------------------------------------------------------------- *)
\* the increments of the counter worker w has completed
IncrementsDone(w) == wi[w] + (IF wpc[w] = "tostring" THEN 1 ELSE 0)

C12_Inv ==
    /\ threads <= threadCount
    /\ {w \in Workers : wpc[w] # "unspawned"} = 1..threads
    /\ mainPc # "spawn" => threads = threadCount
    /\ (mainPc = "join" \/ joined > 0) => threads = threadCount
    /\ \A w \in Workers : IncrementsDone(w) <= iterations
    /\ \A w \in Workers : wpc[w] = "done" => IncrementsDone(w) = iterations
    /\ Reported => \A w \in 1..threadCount : IncrementsDone(w) = iterations

C12_Step ==
    /\ threads' # threads => (threads' = threads + 1 /\ joined = 0 /\ mainPc = "spawn")
    /\ joined' # joined => (threads = threadCount /\ threads' = threads)
    /\ \A w \in Workers :
          \/ IncrementsDone(w)' = IncrementsDone(w)
          \/ /\ IncrementsDone(w)' = IncrementsDone(w) + 1
             /\ counter' # counter
             /\ \A v \in Workers \ {w} : IncrementsDone(v)' = IncrementsDone(v)
    /\ counter' # counter =>
          \E w \in Workers : IncrementsDone(w)' = IncrementsDone(w) + 1

\* C12: main spawns exactly threadCount workers, a worker never makes more
\* than iterations increments and has made exactly iterations when its
\* lambda returns, each increment is one change of the counter, and no
\* join returns before the last worker has been spawned.
C12_SpawnLoopJoin == [](C12_Inv) /\ [][C12_Step]_vars

\* the first worker has already finished while the second is not yet spawned
C12_Witness ==
    /\ threadCount = 2
    /\ iterations >= 2
    /\ mainPc = "spawn"
    /\ threads = 1
    /\ wpc[1] = "done"
    /\ wpc[2] = "unspawned"
    /\ counter = iterations

(* ---- C13 ----------------------------------------------------------------- *)
\* worker w is between two consecutive increments of its own
MidLoop(w) == IncrementsDone(w) >= 1 /\ IncrementsDone(w) < iterations

\* under Locking no other worker increments while w is between two of its
\* increments
C13_LockingStep ==
    discipline = "Locking" =>
        \A w \in Workers : MidLoop(w) =>
            \A v \in Workers \ {w} : IncrementsDone(v)' = IncrementsDone(v)

\* under Locking two workers are never both part-way through their loops;
\* under Atomic a worker between two increments can always make the next
C13_Inv ==
    /\ discipline = "Locking" =>
          \A w, v \in Workers :
              (w # v /\ MidLoop(w)) => IncrementsDone(v) \in {0, iterations}
    /\ discipline = "Atomic" =>
          \A w \in Workers :
              (MidLoop(w) /\ wpc[w] = "loop") => ENABLED WorkerFetchAdd(w)

\* C13: under Atomic an increment of one worker can fall between two
\* consecutive increments of another (the witness is such an execution);
\* under Locking no execution does that.
C13_InterleavingGranularity == [](C13_Inv) /\ [][C13_LockingStep]_vars

\* worker 1 incremented to 1 and read 1, worker 2 then incremented to 2 and
\* read 2, and worker 1 has now made its second increment, to 3
C13_Witness ==
    /\ discipline = "Atomic"
    /\ threadCount >= 2
    /\ iterations >= 2
    /\ memeSmth[1] = "1" /\ wi[1] = 1 /\ wpc[1] = "tostring"
    /\ memeSmth[2] = "2" /\ wi[2] = 1 /\ wpc[2] = "loop"
    /\ counter = 3

(* ---- C14 ----------------------------------------------------------------- *)
\* a step of main: a spawn, a join, the output statement or the return
MainMoves ==
    \/ mainPc' # mainPc
    \/ threads' # threads
    \/ joined' # joined
    \/ output' # output
    \/ mainReads' # mainReads
    \/ exitCode' # exitCode

\* worker w completes a counter++ (a fetch-and-add, or the store of the
\* plain increment)
IncrementStep(w) ==
    /\ wpc[w] \in {"loop", "store"}
    /\ wpc'[w] = "tostring"
    /\ \A v \in Workers \ {w} : wpc'[v] = wpc[v]
    /\ ~MainMoves

C14_Step ==
    /\ config' = config
    /\ MainMoves => counter' = counter
    /\ counter' # counter => \E w \in Workers : IncrementStep(w)
    /\ \A w \in Workers :
          (wpc'[w] # wpc[w] /\ wpc'[w] # "tostring") => counter' = counter

\* C14: no step writes threadCount, iterations or the discipline; a spawn,
\* a join, the output statement and the return leave the counter unchanged;
\* the only step that changes the counter is a worker's increment.
C14_Frame == [][C14_Step]_vars

\* every kind of step has been taken and the counter still holds the total
C14_Witness ==
    /\ threadCount = 2
    /\ iterations = 2
    /\ exit = "returned"
    /\ Reported
    /\ counter = 4

(* ---- C15 ----------------------------------------------------------------- *)
RECURSIVE IncrementsUpTo(_)
IncrementsUpTo(n) == IF n = 0 THEN 0 ELSE IncrementsDone(n) + IncrementsUpTo(n - 1)

\* the increments completed so far by all workers
TotalIncrements == IncrementsUpTo(MaxThreads)

C15_Inv ==
    /\ InRange =>
          /\ counter = TotalIncrements
          /\ 0 <= counter
          /\ counter <= Product
    /\ discipline = "Atomic" => counter = WrapInt(TotalIncrements)

C15_Step == InRange => (counter' = counter \/ counter' = counter + 1)

BlockStart == iterations * Cardinality({v \in Workers : wpc[v] = "done"})

C16_Inv ==
    discipline = "Locking" =>
        \A w \in Workers :
            /\ (m = w /\ wpc[w] = "loop" /\ wi[w] >= 1)
                  => memeSmth[w] = ToString(counter)
            /\ (m = w /\ BlockStart + iterations <= INT_MAX)
                  => /\ counter = BlockStart + IncrementsDone(w)
                     /\ (wpc[w] = "loop" /\ wi[w] >= 1)
                           => memeSmth[w] = ToString(BlockStart + wi[w])

C16_Step ==
    discipline = "Locking" =>
        \A w \in Workers :
            /\ wpc[w] = "tostring" =>
                  /\ counter' = counter
                  /\ wpc'[w] # "tostring" => memeSmth'[w] = ToString(counter)
            /\ (m = w /\ m' = w) => BlockStart' = BlockStart
            /\ (m = w /\ m' # w /\ BlockStart + iterations <= INT_MAX)
                  => (counter = BlockStart + iterations /\ counter' = counter)

WorkerFetchAddTraced(w) ==
    /\ exit = "running"
    /\ discipline = "Atomic"
    /\ wpc[w] = "loop"
    /\ LoopCondition(w)
    /\ counter' = AtomicFetchAdd(counter)
    /\ loaded' = [loaded EXCEPT ![w] = counter]
    /\ wpc' = [wpc EXCEPT ![w] = "tostring"]
    /\ UNCHANGED <<probeVars, discipline, threadCount, iterations, m, threads, joined,
                   mainPc, wi, memeSmth, output, mainReads, exit, exitCode>>

TracedWorkerStep(w) ==
    \/ WorkerLock(w)
    \/ WorkerFetchAddTraced(w)
    \/ WorkerLoad(w)
    \/ WorkerStore(w)
    \/ WorkerStoreOverflow(w)
    \/ WorkerToString(w)
    \/ WorkerReturn(w)

TracedNext ==
    \/ Spawn
    \/ Join
    \/ PrintCounter
    \/ Return
    \/ \E w \in Workers : TracedWorkerStep(w)

TracedSpec == Init /\ [][TracedNext]_vars

\* the value worker w's latest atomic increment produced
Produced(w) == AtomicFetchAdd(loaded[w])

\* worker w has made an increment and read the counter after it
HasRead(w) == wi[w] >= 1 /\ wpc[w] \in {"loop", "done"}

CounterExamplesAbsent ==
    /\ discipline = "none"
    /\ threadCount = 0
    /\ iterations = 0
    /\ counter = 0
    /\ m = 0
    /\ threads = 0
    /\ joined = 0
    /\ mainPc = "absent"
    /\ wpc = [w \in Workers |-> "unspawned"]
    /\ wi = [w \in Workers |-> 0]
    /\ loaded = [w \in Workers |-> 0]
    /\ memeSmth = [w \in Workers |-> ""]
    /\ output = <<>>
    /\ mainReads = 0
    /\ exit = "absent"
    /\ exitCode = <<>>

\* FeatureTest test; std::atomic<int> counter{0}
ProbeInit ==
    /\ CounterExamplesAbsent
    /\ pStandard \in CppStandards
    /\ pPc = "banner"
    /\ pCounter = 0
    /\ pThreads = 0
    /\ pJoined = 0
    /\ pWpc = [t \in ProbeWorkers |-> "unspawned"]
    /\ pJ = [t \in ProbeWorkers |-> 0]
    /\ pOutput = <<>>
    /\ pExitCode = <<>>

\* std::cout << "C++ Standard: " << __cplusplus << std::endl;
ProbeBanner ==
    /\ pPc = "banner"
    /\ pOutput' = Append(pOutput, "C++ Standard: " \o ToString(pStandard))
    /\ pPc' = "spawn"
    /\ UNCHANGED <<counterVars, pStandard, pCounter, pThreads, pJoined, pWpc, pJ,
                   pExitCode>>

\* threads.emplace_back([this]() {...}); ++i; loop test
ProbeSpawn ==
    /\ pPc = "spawn"
    /\ pThreads < ProbeThreads
    /\ pThreads' = pThreads + 1
    /\ pWpc' = [pWpc EXCEPT ![pThreads + 1] = "loop"]
    /\ pPc' = IF pThreads + 1 < ProbeThreads THEN "spawn" ELSE "join"
    /\ UNCHANGED <<counterVars, pStandard, pCounter, pJoined, pJ, pOutput,
                   pExitCode>>

\* a join that returns as soon as the thread exists
ProbeJoinReturnsWithoutWaiting(t) == pWpc[t] # "unspawned"

\* thread.join() returns only once that thread's lambda has returned
ProbeJoinReturns(t) == pWpc[t] = "done"

ProbeJoin ==
    /\ pPc = "join"
    /\ pJoined < pThreads
    /\ ProbeJoinReturns(pJoined + 1)
    /\ pJoined' = pJoined + 1
    /\ pPc' = IF pJoined + 1 < pThreads THEN "join" ELSE "print"
    /\ UNCHANGED <<counterVars, pStandard, pCounter, pThreads, pWpc, pJ, pOutput,
                   pExitCode>>

\* the line std::cout << "Final counter value: " << counter writes
ProbeCounterLine(v) == "Final counter value: " \o ToString(v)

\* #if __cplusplus >= 202002L
HasCpp20 == pStandard >= 202002

\* std::cout << "Final counter value: " << counter << std::endl;
ProbePrintCounter ==
    /\ pPc = "print"
    /\ pOutput' = Append(pOutput, ProbeCounterLine(pCounter))
    /\ pPc' = IF HasCpp20 THEN "cpp20" ELSE "return"
    /\ UNCHANGED <<counterVars, pStandard, pCounter, pThreads, pJoined, pWpc, pJ,
                   pExitCode>>

\* test_numeric: [](Numeric auto x) { return x * 2; }
TestNumeric(x) == x * 2

\* numbers | std::views::filter([](int n) { return n % 2 == 0; })
IsEven(n) == n % 2 = 0
EvenNumbers == SelectSeq(<<1, 2, 3, 4, 5>>, IsEven)

\* for(int n : even) std::cout << " " << n;
RECURSIVE RangesLine(_, _)
RangesLine(line, ns) ==
    IF ns = <<>> THEN line
    ELSE RangesLine(line \o " " \o ToString(Head(ns)), Tail(ns))

\* the C++20 block of test_features
ProbeCpp20 ==
    /\ pPc = "cpp20"
    /\ pOutput' = pOutput \o
          << "Testing C++20 features:",
             "Numeric concept test: " \o ToString(TestNumeric(42)),
             RangesLine("Ranges test - Even numbers:", EvenNumbers) >>
    /\ pPc' = "return"
    /\ UNCHANGED <<counterVars, pStandard, pCounter, pThreads, pJoined, pWpc, pJ,
                   pExitCode>>

\* test_features returns; main: return 0;
ProbeReturn ==
    /\ pPc = "return"
    /\ pPc' = "exited"
    /\ pExitCode' = <<0>>
    /\ UNCHANGED <<counterVars, pStandard, pCounter, pThreads, pJoined, pWpc, pJ,
                   pOutput>>

\* for(int j = 0; j < 1000; ++j)
ProbeLoopCondition(t) == pJ[t] < ProbeIterations

\* increment(): counter++ on the std::atomic<int>; ++j
ProbeWorkerIncrement(t) ==
    /\ pWpc[t] = "loop"
    /\ ProbeLoopCondition(t)
    /\ pCounter' = AtomicFetchAdd(pCounter)
    /\ pJ' = [pJ EXCEPT ![t] = pJ[t] + 1]
    /\ UNCHANGED <<counterVars, pStandard, pPc, pThreads, pJoined, pWpc, pOutput,
                   pExitCode>>

\* j < 1000 fails: the lambda returns
ProbeWorkerReturn(t) ==
    /\ pWpc[t] = "loop"
    /\ ~ProbeLoopCondition(t)
    /\ pWpc' = [pWpc EXCEPT ![t] = "done"]
    /\ UNCHANGED <<counterVars, pStandard, pPc, pCounter, pThreads, pJoined, pJ,
                   pOutput, pExitCode>>

ProbeNext ==
    \/ ProbeBanner
    \/ ProbeSpawn
    \/ ProbeJoin
    \/ ProbePrintCounter
    \/ ProbeCpp20
    \/ ProbeReturn
    \/ \E t \in ProbeWorkers : ProbeWorkerIncrement(t)
    \/ \E t \in ProbeWorkers : ProbeWorkerReturn(t)

ProbeSpec == ProbeInit /\ [][ProbeNext]_vars

(* ---- C18 ----------------------------------------------------------------- *)
\* the probe has written its counter line
ProbeReported == pPc \in {"cpp20", "return", "exited"}

C18_Inv ==
    /\ pThreads <= ProbeThreads
    /\ {t \in ProbeWorkers : pWpc[t] # "unspawned"} = 1..pThreads
    /\ pPc \notin {"banner", "spawn"} => pThreads = ProbeThreads
    /\ \A t \in ProbeWorkers : pJ[t] <= ProbeIterations
    /\ \A t \in ProbeWorkers : pWpc[t] = "done" => pJ[t] = ProbeIterations
    /\ ~ProbeReported => Len(pOutput) <= 1
    /\ ProbeReported =>
          /\ pJoined = ProbeThreads
          /\ \A t \in ProbeWorkers : pWpc[t] = "done"
          /\ pCounter = ProbeThreads * ProbeIterations
          /\ pOutput[2] = ProbeCounterLine(ProbeThreads * ProbeIterations)

C18_Step == ProbeReported => pCounter' = pCounter

\* C18: test_features spawns exactly ProbeThreads (5) threads, each calls
\* increment() exactly ProbeIterations times on the object's own atomic
\* counter, which starts at 0; it joins all of them and only then writes
\* the counter, so the 'Final counter value' is ProbeThreads *
\* ProbeIterations in every interleaving.
C18_ProbeFinalCounter == [](C18_Inv) /\ [][C18_Step]_vars

C18_Witness ==
    /\ pPc = "exited"
    /\ pStandard = 202002
    /\ pExitCode = <<0>>
    /\ Len(pOutput) = 5
    /\ pOutput[2] = ProbeCounterLine(ProbeThreads * ProbeIterations)
    /\ pOutput[5] = "Ranges test - Even numbers: 2 4"

====
